---- MODULE Spec2Model ----
(***************************************************************************)
(* GenomeSim core: the data model of genomesim/core/types.py (Confidence,  *)
(* Provenance, GenomicFeature) and the shared helpers of                   *)
(* genomesim/core/interfaces.py (ScaleBridge.aggregate_confidence).        *)
(*                                                                         *)
(* Python objects live in heaps indexed by address (1, 2, ...): a          *)
(* dataclass instance is a record whose container fields hold the address  *)
(* of a list or dict object, so that aliasing and in-place mutation are    *)
(* visible.  Python floats are modelled by a binary floating-point format  *)
(* of reduced precision: Prec significand bits, round to nearest, ties to  *)
(* even, with 2^-Quant as the finest quantum (gradual underflow).  The     *)
(* integer k stands for the float k / Unit.                                *)
(***************************************************************************)
EXTENDS Integers, Sequences, FiniteSets, TLC

----------------------------------------------------------------------------
(* Bounds of the model *)

\* significand bits of the modelled float format
Prec == 3
\* the finest representable quantum is 2^-Quant
Quant == 4
\* longest list of scores or weights handed to aggregate_confidence
MaxLen == 2
\* largest coordinate a caller passes to GenomicFeature
MaxCoord == 3
\* longest sequence handed to validate_sequence
MaxSeq == 3
\* most combine_with calls a chain of combinations records
MaxChain == 2

----------------------------------------------------------------------------
(* Floating point *)

\* the integer standing for 1.0
Unit == 2^Quant

\* n/d of a unit, for d a power of two dividing Unit
Frac(n, d) == (n * Unit) \div d

One == Unit
Half == Frac(1, 2)

\* the binade of n/d: the exponent e with 2^(Prec-1) <= n/(d*2^e) < 2^Prec,
\* or 0 below the normal range
RECURSIVE Binade(_, _, _)
Binade(n, d, e) == IF n < (2^(Prec + e)) * d THEN e ELSE Binade(n, d, e + 1)

\* n/d >= 0 rounded to the nearest float, ties to even
RoundPos(n, d) ==
    LET e == Binade(n, d, 0)
        D == d * (2^e)
        q == n \div D
        r == n % D
        up == (2 * r > D) \/ (2 * r = D /\ q % 2 = 1)
    IN  (IF up THEN q + 1 ELSE q) * (2^e)

\* n/d (d > 0) rounded to the nearest float
Round(n, d) == IF n < 0 THEN -RoundPos(-n, d) ELSE RoundPos(n, d)

\* k is a value of the float format
IsFloat(k) == Round(k, 1) = k

\* x + y, x - y, x * y, x / y as the hardware computes them
FAdd(x, y) == Round(x + y, 1)
FSub(x, y) == Round(x - y, 1)
FMul(x, y) == Round(x * y, Unit)
FDiv(x, y) == IF y < 0 THEN Round((-x) * Unit, -y) ELSE Round(x * Unit, y)

----------------------------------------------------------------------------
(* Python lists, sets and dicts *)

\* the set of elements of a list
Range(s) == {s[i] : i \in 1..Len(s)}

\* the lists that hold each element of set S exactly once, in any order:
\* list(set(...)) iterates the set in an order the language does not fix
ListsOf(S) ==
    {s \in [1..Cardinality(S) -> S] : \A i, j \in 1..Cardinality(S) : s[i] = s[j] => i = j}

\* a dict is the list of its <<key, value>> items in insertion order
DictKeys(d) == {d[i][1] : i \in 1..Len(d)}
DictGet(d, k) == (CHOOSE i \in 1..Len(d) : d[i][1] = k)
DictValue(d, k) == d[DictGet(d, k)][2]

\* d[k] = v: an existing key keeps its position, a new key is appended
DictSet(d, k, v) ==
    IF k \in DictKeys(d)
    THEN [i \in 1..Len(d) |-> IF d[i][1] = k THEN <<k, v>> ELSE d[i]]
    ELSE Append(d, <<k, v>>)

\* {**d1, **d2}
RECURSIVE DictMerge(_, _)
DictMerge(d1, d2) ==
    IF d2 = <<>> THEN d1
    ELSE DictMerge(DictSet(d1, Head(d2)[1], Head(d2)[2]), Tail(d2))

\* an optional value: <<>> is None, <<x>> is the value x
Omitted == <<>>
Given(x) == <<x>>

\* a str is the list of the pieces of its text, a tab or a newline being a
\* piece of its own; the empty str is <<>>.  bool(x) of an optional str:
\* None and the empty str are false
Truth(x) == x # Omitted /\ x[1] # <<>>

----------------------------------------------------------------------------
(* State *)

VARIABLES
    confs,    \* heap of Confidence instances
    provs,    \* heap of Provenance instances
    feats,    \* heap of GenomicFeature instances
    lists,    \* heap of list-of-str objects (Confidence.sources)
    dicts,    \* heap of dict objects (Confidence.supporting_evidence)
    flists,   \* heap of list-of-float objects (arguments of aggregate_confidence)
    analyzers, \* heap of SequenceAnalyzer and ScaleBridge instances
    last      \* the call the caller made last, and how it ended

vars == <<confs, provs, feats, lists, dicts, flists, analyzers, last>>

\* no exception / no return value
NoError == <<>>
NoValue == <<>>

\* the record of a call: what was called with which arguments, the exception
\* it raised (NoError if none) and the value it returned (NoValue if it raised)
Call(op, args, error, ret) == [op |-> op, args |-> args, error |-> error, ret |-> ret]

Returned(op) == last.op = op /\ last.error = NoError
Raised(op) == last.op = op /\ last.error # NoError

----------------------------------------------------------------------------
(* Confidence *)

ScoreError == <<"ValueError", "Confidence score must be between 0.0 and 1.0">>
SourcesError == <<"ValueError", "Confidence must have at least one source">>
WeightError == <<"ValueError", "weight_self must be between 0.0 and 1.0">>

\* Confidence.__post_init__ on a score and the contents of the sources list:
\* the exception it raises, NoError if it returns
ConfidencePostInit_open(score, sources) ==
    IF ~(0 < score /\ score < One) THEN ScoreError
    ELSE IF sources = <<>> THEN SourcesError
    ELSE NoError

ConfidencePostInit(score, sources) ==
    IF ~(0 <= score /\ score <= One) THEN ScoreError
    ELSE IF sources = <<>> THEN SourcesError
    ELSE NoError

\* a Confidence instance: the container fields hold addresses
ConfidenceObj(score, method, sources, evidence) ==
    [score |-> score, method |-> method, sources |-> sources,
     supporting_evidence |-> evidence]

\* the first n objects of a heap: the objects still referenced when the
\* caller rebinds the variable that held the later ones
Keep(h, n) == SubSeq(h, 1, n)

\* x = Confidence(score, method, [..sources..], {..evidence..}) called with a
\* list and a dict the caller builds for the call, while the first `keep`
\* instances stay referenced.  The instance exists only if __post_init__
\* returns; a rejected call leaves x bound to what it was.
NewConfidence(keep, score, method, sources, evidence) ==
    LET err == ConfidencePostInit(score, sources)
        args == <<score, sources>>
    IN  IF err # NoError
        THEN /\ last' = Call("Confidence", args, err, NoValue)
             /\ UNCHANGED <<confs, provs, feats, lists, dicts, flists, analyzers>>
        ELSE /\ lists' = Append(Keep(lists, keep), sources)
             /\ dicts' = Append(Keep(dicts, keep), evidence)
             /\ confs' = Append(Keep(confs, keep),
                                ConfidenceObj(score, method, keep + 1, keep + 1))
             /\ last' = Call("Confidence", args, NoError, <<keep + 1>>)
             /\ UNCHANGED <<provs, feats, flists, analyzers>>

\* c.score = v on an existing instance: the dataclass is not frozen and
\* __post_init__ does not run again
AssignScore(c, v) ==
    /\ c \in DOMAIN confs
    /\ confs' = [confs EXCEPT ![c].score = v]
    /\ last' = Call("setattr", <<>>, NoError, NoValue)
    /\ UNCHANGED <<provs, feats, lists, dicts, flists, analyzers>>

\* the names of evidence factors a caller uses
SourceNames == {"s1", "s2"}

\* c.sources.append(s); the caller stops at Cardinality(SourceNames) + 1 names
AppendSource(c, s) ==
    /\ c \in DOMAIN confs
    /\ Len(lists[confs[c].sources]) <= Cardinality(SourceNames)
    /\ lists' = [lists EXCEPT ![confs[c].sources] = Append(@, s)]
    /\ last' = Call("append", <<>>, NoError, NoValue)
    /\ UNCHANGED <<confs, provs, feats, dicts, flists, analyzers>>

\* c.sources.clear()
ClearSources(c) ==
    /\ c \in DOMAIN confs
    /\ lists' = [lists EXCEPT ![confs[c].sources] = <<>>]
    /\ last' = Call("clear", <<>>, NoError, NoValue)
    /\ UNCHANGED <<confs, provs, feats, dicts, flists, analyzers>>

\* c.supporting_evidence[k] = v
SetEvidence(c, k, v) ==
    /\ c \in DOMAIN confs
    /\ dicts' = [dicts EXCEPT ![confs[c].supporting_evidence] = DictSet(@, k, v)]
    /\ last' = Call("setitem", <<>>, NoError, NoValue)
    /\ UNCHANGED <<confs, provs, feats, lists, flists, analyzers>>

\* what a caller passes to Confidence
Scores == {Frac(-1, 4), 0, Frac(1, 4), Half, Frac(3, 4), One, Frac(5, 4)}
SourceLists == {<<>>, <<"s1">>, <<"s2">>, <<"s1", "s2">>, <<"s1", "s1">>}
EvidenceDicts == {<<>>, << <<"s1", 1>> >>, << <<"s1", 2>>, <<"s2", 1>> >>}

EmptyHeap ==
    /\ confs = <<>>
    /\ provs = <<>>
    /\ feats = <<>>
    /\ lists = <<>>
    /\ dicts = <<>>
    /\ flists = <<>>
    /\ analyzers = <<>>

InitConfidence ==
    /\ EmptyHeap
    /\ last = Call("none", <<>>, NoError, NoValue)

NextConfidence ==
    \/ \E s \in Scores, l \in SourceLists, e \in EvidenceDicts :
          NewConfidence(0, s, <<"m1">>, l, e)
    \/ \E c \in DOMAIN confs, v \in Scores : AssignScore(c, v)
    \/ \E c \in DOMAIN confs, s \in SourceNames : AppendSource(c, s)
    \/ \E c \in DOMAIN confs : ClearSources(c)
    \/ \E c \in DOMAIN confs, v \in 1..2 : SetEvidence(c, "s1", v)

SpecConfidence == InitConfidence /\ [][NextConfidence]_vars

\* C2: constructing a Confidence succeeds if and only if its score lies in
\* the closed interval [0.0, 1.0] and its sources list is non-empty; every
\* other call raises a ValueError, returns nothing and leaves the existing
\* Confidence instances as they were.
C2_ConfidenceValidation ==
    [][last'.op = "Confidence" =>
         LET score == last'.args[1]
             sources == last'.args[2]
             valid == 0 <= score /\ score <= One /\ Len(sources) >= 1
         IN  /\ (last'.error = NoError) <=> valid
             /\ valid =>
                  /\ Len(last'.ret) = 1
                  /\ last'.ret[1] \in DOMAIN confs'
                  /\ confs'[last'.ret[1]].score = score
                  /\ lists'[confs'[last'.ret[1]].sources] = sources
             /\ ~valid =>
                  /\ last'.error[1] = "ValueError"
                  /\ last'.ret = NoValue
                  /\ confs' = confs /\ lists' = lists /\ dicts' = dicts]_vars

\* the upper bound itself is accepted
C2_Witness ==
    /\ Returned("Confidence")
    /\ last.args[1] = One
    /\ confs[last.ret[1]].score = One


----------------------------------------------------------------------------
(* Provenance and GenomicFeature *)

\* a Provenance instance
ProvenanceObj(analyzer, version, parameters, timestamp, dependencies, references) ==
    [analyzer |-> analyzer, version |-> version, parameters |-> parameters,
     timestamp |-> timestamp, dependencies |-> dependencies,
     references |-> references]

StartError == <<"ValueError", "Start position must be non-negative">>
EndError == <<"ValueError", "End position must be greater than start">>
StrandError == <<"ValueError", "Strand must be '+' or '-'">>

\* GenomicFeature.__post_init__: the exception it raises, NoError if it returns
FeaturePostInit_endeq(start, end, strand) ==
    IF start < 0 THEN StartError
    ELSE IF end < start THEN EndError
    ELSE IF strand \notin {"+", "-"} THEN StrandError
    ELSE NoError

FeaturePostInit(start, end, strand) ==
    IF start < 0 THEN StartError
    ELSE IF end <= start THEN EndError
    ELSE IF strand \notin {"+", "-"} THEN StrandError
    ELSE NoError

\* a GenomicFeature instance: confidence and provenance hold addresses
FeatureObj(start, end, strand, ftype, conf, attrs, prov, seqid) ==
    [start |-> start, end |-> end, strand |-> strand, feature_type |-> ftype,
     confidence |-> conf, attributes |-> attrs, provenance |-> prov,
     sequence_id |-> seqid]

\* x = GenomicFeature(start, end, strand, ftype, conf, attrs, prov, seqid)
\* while the first `keep` features stay referenced
NewFeature(keep, start, end, strand, ftype, conf, attrs, prov, seqid) ==
    LET err == FeaturePostInit(start, end, strand)
        args == <<start, end, strand>>
    IN  /\ conf \in DOMAIN confs
        /\ prov \in DOMAIN provs
        /\ IF err # NoError
           THEN /\ last' = Call("GenomicFeature", args, err, NoValue)
                /\ UNCHANGED feats
           ELSE /\ feats' = Append(Keep(feats, keep),
                                   FeatureObj(start, end, strand, ftype, conf,
                                              attrs, prov, seqid))
                /\ last' = Call("GenomicFeature", args, NoError, <<keep + 1>>)
        /\ UNCHANGED <<confs, provs, lists, dicts, flists, analyzers>>

\* f.start = v or f.end = v on an existing instance
AssignCoord(f, field, v) ==
    /\ f \in DOMAIN feats
    /\ feats' = IF field = "start" THEN [feats EXCEPT ![f].start = v]
                ELSE [feats EXCEPT ![f].end = v]
    /\ last' = Call("setattr", <<>>, NoError, NoValue)
    /\ UNCHANGED <<confs, provs, lists, dicts, flists, analyzers>>

\* f.strand = v on an existing instance
AssignStrand(f, v) ==
    /\ f \in DOMAIN feats
    /\ feats' = [feats EXCEPT ![f].strand = v]
    /\ last' = Call("setattr", <<>>, NoError, NoValue)
    /\ UNCHANGED <<confs, provs, lists, dicts, flists, analyzers>>

\* what a caller passes to GenomicFeature
Coords == -1..MaxCoord
Strands == {"+", "-", "?"}

\* tests/test_types.py, test_valid_confidence_creation
sample_confidence == ConfidenceObj(Frac(3, 4), <<"test">>, 1, 1)
sample_sources == <<"source1">>
sample_evidence == << <<"source1", Frac(3, 4)>> >>

\* tests/conftest.py, sample_provenance
sample_provenance ==
    ProvenanceObj(<<"TestAnalyzer">>, "0.1.0",
                  << <<"param1", "value1">>, <<"param2", 42>> >>,
                  "2025-10-31T12:00:00Z", <<"dep1", "dep2">>,
                  <<"http://example.com/ref1">>)

InitFeature ==
    /\ confs = <<sample_confidence>>
    /\ lists = <<sample_sources>>
    /\ dicts = <<sample_evidence>>
    /\ provs = <<sample_provenance>>
    /\ feats = <<>>
    /\ flists = <<>>
    /\ analyzers = <<>>
    /\ last = Call("none", <<>>, NoError, NoValue)

NextFeature ==
    \/ \E s \in Coords, e \in Coords, d \in Strands :
          NewFeature(0, s, e, d, <<"gene">>, 1, <<>>, 1, Given(<<"chr1">>))
    \/ \E f \in DOMAIN feats, fld \in {"start", "end"}, v \in Coords :
          AssignCoord(f, fld, v)
    \/ \E f \in DOMAIN feats, d \in Strands : AssignStrand(f, d)

SpecFeature == InitFeature /\ [][NextFeature]_vars

\* C1: constructing a GenomicFeature succeeds if and only if start >= 0,
\* end > start and strand is '+' or '-'; every other call raises a ValueError,
\* returns nothing and produces no feature.
C1_FeatureValidation ==
    [][last'.op = "GenomicFeature" =>
         LET start == last'.args[1]
             end == last'.args[2]
             strand == last'.args[3]
             valid == start >= 0 /\ end > start /\ strand \in {"+", "-"}
         IN  /\ (last'.error = NoError) <=> valid
             /\ valid =>
                  /\ Len(last'.ret) = 1
                  /\ last'.ret[1] \in DOMAIN feats'
                  /\ feats'[last'.ret[1]].start = start
                  /\ feats'[last'.ret[1]].end = end
                  /\ feats'[last'.ret[1]].strand = strand
             /\ ~valid =>
                  /\ last'.error[1] = "ValueError"
                  /\ last'.ret = NoValue
                  /\ feats' = feats]_vars

\* a zero-length range was rejected while an earlier feature exists
C1_Witness ==
    /\ Raised("GenomicFeature")
    /\ last.args[1] >= 0
    /\ last.args[2] = last.args[1]
    /\ last.args[3] = "+"
    /\ Len(feats) = 1

\* C3: GenomicFeature, Confidence and Provenance instances are immutable, so
\* in every reachable state every existing feature has start >= 0,
\* end > start and strand in {+, -}, and every existing Confidence has
\* 0 <= score <= 1 and a non-empty sources list.
C3_InstancesStayValid ==
    /\ \A f \in DOMAIN feats :
          /\ feats[f].start >= 0
          /\ feats[f].end > feats[f].start
          /\ feats[f].strand \in {"+", "-"}
    /\ \A c \in DOMAIN confs :
          /\ 0 <= confs[c].score /\ confs[c].score <= One
          /\ lists[confs[c].sources] # <<>>


----------------------------------------------------------------------------
(* Confidence.combine_with *)

\* (self.score * weight_self) + (other.score * weight_other), with
\* weight_other = 1.0 - weight_self, each operation rounded
CombinedScore_swapped(s1, s2, w) == FAdd(FMul(s2, w), FMul(s1, FSub(One, w)))

CombinedScore_unnormalised(s1, s2, w) == FAdd(FMul(s1, w), s2)

CombinedScore(s1, s2, w) == FAdd(FMul(s1, w), FMul(s2, FSub(One, w)))

\* f"combined({self.method}, {other.method})": a method is the list of the
\* pieces of its text
CombinedMethod(m1, m2) == <<"combined(">> \o m1 \o <<", ">> \o m2 \o <<")">>

\* list(set(self.sources + other.sources)): every order the set may iterate in
CombinedSources(l1, l2) == ListsOf(Range(l1 \o l2))

\* {**self.supporting_evidence, **other.supporting_evidence}
CombinedEvidence_selfwins(d1, d2) == DictMerge(d2, d1)

CombinedEvidence(d1, d2) == DictMerge(d1, d2)

\* 0.0 <= weight_self <= 1.0
WeightOk_nolower(w) == w <= One

WeightOk(w) == 0 <= w /\ w <= One

\* x = confs[a].combine_with(confs[b], weight_self=w) while the first `keep`
\* instances stay referenced.  The weight is checked before anything is
\* computed; the result is built by the Confidence constructor from a new
\* list and a new dict.
CombineWith_alias(keep, a, b, w) ==
    /\ a \in DOMAIN confs /\ b \in DOMAIN confs
    /\ WeightOk(w)
    /\ lists' = Keep(lists, keep)
    /\ dicts' = Append(Keep(dicts, keep),
                       CombinedEvidence(dicts[confs[a].supporting_evidence],
                                        dicts[confs[b].supporting_evidence]))
    /\ confs' = Append(Keep(confs, keep),
                       ConfidenceObj(CombinedScore(confs[a].score, confs[b].score, w),
                                     CombinedMethod(confs[a].method, confs[b].method),
                                     confs[a].sources, keep + 1))
    /\ last' = Call("combine_with", <<a, b, w>>, NoError, <<keep + 1>>)
    /\ UNCHANGED <<provs, feats, flists, analyzers>>

CombineWith(keep, a, b, w) ==
    /\ a \in DOMAIN confs /\ b \in DOMAIN confs
    /\ LET self == confs[a]
           other == confs[b]
           args == <<a, b, w>>
       IN  IF ~WeightOk(w)
           THEN /\ last' = Call("combine_with", args, WeightError, NoValue)
                /\ UNCHANGED <<confs, provs, feats, lists, dicts, flists, analyzers>>
           ELSE \E combined_sources \in
                      CombinedSources(lists[self.sources], lists[other.sources]) :
                  LET combined_score == CombinedScore(self.score, other.score, w)
                      combined_evidence ==
                          CombinedEvidence(dicts[self.supporting_evidence],
                                           dicts[other.supporting_evidence])
                      err == ConfidencePostInit(combined_score, combined_sources)
                  IN  IF err # NoError
                      THEN /\ last' = Call("combine_with", args, err, NoValue)
                           /\ UNCHANGED <<confs, provs, feats, lists, dicts, flists, analyzers>>
                      ELSE /\ lists' = Append(Keep(lists, keep), combined_sources)
                           /\ dicts' = Append(Keep(dicts, keep), combined_evidence)
                           /\ confs' = Append(Keep(confs, keep),
                                              ConfidenceObj(combined_score,
                                                  CombinedMethod(self.method, other.method),
                                                  keep + 1, keep + 1))
                           /\ last' = Call("combine_with", args, NoError, <<keep + 1>>)
                           /\ UNCHANGED <<provs, feats, flists, analyzers>>

----------------------------------------------------------------------------
(* ScaleBridge.aggregate_confidence *)

\* the left-to-right sum of a list of floats, rounded after every addition
RECURSIVE FoldSum(_, _)
FoldSum(acc, s) == IF s = <<>> THEN acc ELSE FoldSum(FAdd(acc, Head(s)), Tail(s))

\* the sum of a list of floats in exact arithmetic
RECURSIVE ExactSum(_)
ExactSum(s) == IF s = <<>> THEN 0 ELSE Head(s) + ExactSum(Tail(s))

\* sum(s): the interpreter adds left to right, and newer interpreters
\* compensate the rounding errors, which yields the rounded exact sum
SumOutcomes(s) == {FoldSum(0, s), Round(ExactSum(s), 1)}

\* [c * w for c, w in zip(confidences, weights)] on lists of one length
Products(cs, ws) == [i \in 1..Len(cs) |-> FMul(cs[i], ws[i])]

\* min(s) of a non-empty list
SeqMin_first(s) == s[1]

SeqMin(s) == CHOOSE x \in Range(s) : \A y \in Range(s) : x <= y

\* product = 1.0; for c in s: product *= c
RECURSIVE FoldProduct(_, _)
FoldProduct(acc, s) ==
    IF s = <<>> THEN acc ELSE FoldProduct(FMul(acc, Head(s)), Tail(s))

\* r ** n in exact arithmetic, in units of Unit^-n
RECURSIVE Power(_, _)
Power(r, n) == IF n = 0 THEN 1 ELSE r * Power(r, n - 1)

\* the floats from 0 up to the power of two above p
FloatsUpTo(p) == {r \in 0..(2 * p + Unit) : IsFloat(r)}

\* p ** (1.0 / n) for p >= 0: exact for n = 1, else one of the two floats
\* that enclose the n-th root of p
RootOutcomes(p, n) ==
    IF n = 1 THEN {p}
    ELSE LET target == p * Power(Unit, n - 1)
             below == {r \in FloatsUpTo(p) : Power(r, n) <= target}
             above == {r \in FloatsUpTo(p) : Power(r, n) >= target}
         IN  {CHOOSE r \in below : \A x \in below : x <= r,
              CHOOSE r \in above : \A x \in above : r <= x}

LengthError == <<"ValueError", "Weights length must match confidences length">>
MethodError(method) == <<"ValueError", "Unknown aggregation method", method>>

\* the methods aggregate_confidence documents
Documented == {"weighted_average", "minimum", "geometric_mean"}

\* the weighted_average branch on a non-empty list of scores: the outcomes
\* <<exception, return value>>
WeightedAverage_truncating(confidences, weights) ==
    LET ws == IF weights = Omitted
              THEN [i \in 1..Len(confidences) |-> One]
              ELSE weights[1]
        n == IF Len(ws) < Len(confidences) THEN Len(ws) ELSE Len(confidences)
    IN  UNION {
           IF total_weight = 0
           THEN {<<NoError, <<0>> >>}
           ELSE {<<NoError, <<FDiv(weighted_sum, total_weight)>> >> :
                    weighted_sum \in SumOutcomes(Products(SubSeq(confidences, 1, n),
                                                          SubSeq(ws, 1, n)))}
           : total_weight \in SumOutcomes(ws)}

WeightedAverage_unweighted(confidences, weights) ==
    LET ws == IF weights = Omitted
              THEN [i \in 1..Len(confidences) |-> One]
              ELSE weights[1]
    IN  IF Len(ws) # Len(confidences)
        THEN {<<LengthError, NoValue>>}
        ELSE UNION {
               IF total_weight = 0
               THEN {<<NoError, <<0>> >>}
               ELSE {<<NoError, <<FDiv(weighted_sum, total_weight)>> >> :
                        weighted_sum \in SumOutcomes(confidences)}
               : total_weight \in SumOutcomes(ws)}

WeightedAverage(confidences, weights) ==
    LET ws == IF weights = Omitted
              THEN [i \in 1..Len(confidences) |-> One]
              ELSE weights[1]
    IN  IF Len(ws) # Len(confidences)
        THEN {<<LengthError, NoValue>>}
        ELSE UNION {
               IF total_weight = 0
               THEN {<<NoError, <<0>> >>}
               ELSE {<<NoError, <<FDiv(weighted_sum, total_weight)>> >> :
                        weighted_sum \in SumOutcomes(Products(confidences, ws))}
               : total_weight \in SumOutcomes(ws)}

\* the geometric_mean branch on a non-empty list of non-negative scores
GeometricMean(confidences) ==
    {<<NoError, <<r>> >> :
        r \in RootOutcomes(FoldProduct(One, confidences), Len(confidences))}

\* the outcomes <<exception, return value>> of aggregate_confidence on the
\* contents of its arguments
AggregateOutcomes_fallback(confidences, method, weights) ==
    IF confidences = <<>> THEN {<<NoError, <<0>> >>}
    ELSE IF method = "weighted_average" THEN WeightedAverage(confidences, weights)
    ELSE IF method = "geometric_mean" THEN GeometricMean(confidences)
    ELSE {<<NoError, <<SeqMin(confidences)>> >>}

AggregateOutcomes_lengthfirst(confidences, method, weights) ==
    IF method = "weighted_average" /\ weights # Omitted
       /\ Len(weights[1]) # Len(confidences)
    THEN {<<LengthError, NoValue>>}
    ELSE IF confidences = <<>> THEN {<<NoError, <<0>> >>}
    ELSE IF method = "weighted_average" THEN WeightedAverage(confidences, weights)
    ELSE IF method = "minimum" THEN {<<NoError, <<SeqMin(confidences)>> >>}
    ELSE IF method = "geometric_mean" THEN GeometricMean(confidences)
    ELSE {<<MethodError(method), NoValue>>}

AggregateOutcomes(confidences, method, weights) ==
    IF confidences = <<>> THEN {<<NoError, <<0>> >>}
    ELSE IF method = "weighted_average" THEN WeightedAverage(confidences, weights)
    ELSE IF method = "minimum" THEN {<<NoError, <<SeqMin(confidences)>> >>}
    ELSE IF method = "geometric_mean" THEN GeometricMean(confidences)
    ELSE {<<MethodError(method), NoValue>>}

\* the list object an argument names: address 0 is None
WeightsArg(w) == IF w = 0 THEN Omitted ELSE Given(flists[w])

\* bridge.aggregate_confidence(flists[c], method, weights) with weights None
\* (w = 0) or flists[w].  The default weights are a new local list; no
\* argument is written to.
AggregateConfidence(c, method, w) ==
    /\ c \in DOMAIN flists
    /\ w \in {0} \cup DOMAIN flists
    /\ \E o \in AggregateOutcomes(flists[c], method, WeightsArg(w)) :
          last' = Call("aggregate_confidence", <<c, method, w>>, o[1], o[2])
    /\ UNCHANGED <<confs, provs, feats, lists, dicts, flists, analyzers>>

\* what a caller passes to aggregate_confidence
AggScores == {0, Frac(1, 4), Frac(3, 4), One}
AggWeights == {Frac(-1, 2), 0, Half, One}
Methods == {"weighted_average", "minimum", "geometric_mean", "invalid", "maximum"}

\* the lists over S of at most n elements
ListsUpTo(S, n) == UNION {[1..k -> S] : k \in 0..n}

\* the caller holds a list of scores (address 1) and a list of weights
\* (address 2)
InitAggregate ==
    /\ confs = <<>>
    /\ provs = <<>>
    /\ feats = <<>>
    /\ lists = <<>>
    /\ dicts = <<>>
    /\ \E cs \in ListsUpTo(AggScores, MaxLen), ws \in ListsUpTo(AggWeights, MaxLen) :
          flists = <<cs, ws>>
    /\ analyzers = <<>>
    /\ last = Call("none", <<>>, NoError, NoValue)

NextAggregate ==
    \E m \in Methods, w \in {0, 2} : AggregateConfidence(1, m, w)

SpecAggregate == InitAggregate /\ [][NextAggregate]_vars

\* the scores, the method and the weights of the call that `last` records
ScoresPassed(l) == flists[l.args[1]]
MethodPassed(l) == l.args[2]
WeightsPassed(l) == WeightsArg(l.args[3])

\* C8 as stated: aggregate_confidence called with a method name other than
\* weighted_average, minimum or geometric_mean raises an error naming the
\* unknown method and returns no value, for every list of scores.
C8_UnknownMethodAlwaysRaises ==
    (last.op = "aggregate_confidence" /\ MethodPassed(last) \notin Documented) =>
        /\ last.error = MethodError(MethodPassed(last))
        /\ last.ret = NoValue

\* C8 as amended: aggregate_confidence called with a method name other than
\* weighted_average, minimum or geometric_mean and a non-empty list of
\* scores raises an error naming the unknown method and returns no value;
\* with an empty list it returns 0.0 whatever the method name is.
C8_UnknownMethod ==
    (last.op = "aggregate_confidence" /\ MethodPassed(last) \notin Documented) =>
        IF ScoresPassed(last) # <<>>
        THEN /\ last.error = MethodError(MethodPassed(last))
             /\ last.ret = NoValue
        ELSE /\ last.error = NoError
             /\ last.ret = <<0>>

\* an unknown method was rejected on a list of two scores and given weights
C8_Witness ==
    /\ Raised("aggregate_confidence")
    /\ MethodPassed(last) = "invalid"
    /\ Len(ScoresPassed(last)) = 2
    /\ WeightsPassed(last) # Omitted
    /\ last.error = MethodError("invalid")

\* C9 as stated: aggregate_confidence with method weighted_average raises an
\* error whenever a weights list is supplied whose length differs from the
\* length of the list of scores.
C9_LengthMismatchAlwaysRaises ==
    (/\ last.op = "aggregate_confidence"
     /\ MethodPassed(last) = "weighted_average"
     /\ WeightsPassed(last) # Omitted
     /\ Len(WeightsPassed(last)[1]) # Len(ScoresPassed(last))) =>
        /\ last.error = LengthError
        /\ last.ret = NoValue

\* C9 as amended: aggregate_confidence with method weighted_average and a
\* non-empty list of scores raises an error whenever a weights list is
\* supplied whose length differs from the length of the list of scores; with
\* an empty list of scores it returns 0.0 whatever weights are supplied.
C9_LengthMismatch ==
    (/\ last.op = "aggregate_confidence"
     /\ MethodPassed(last) = "weighted_average"
     /\ WeightsPassed(last) # Omitted
     /\ Len(WeightsPassed(last)[1]) # Len(ScoresPassed(last))) =>
        IF ScoresPassed(last) # <<>>
        THEN /\ last.error = LengthError
             /\ last.ret = NoValue
        ELSE /\ last.error = NoError
             /\ last.ret = <<0>>

\* fewer weights than scores were rejected
C9_Witness ==
    /\ Raised("aggregate_confidence")
    /\ MethodPassed(last) = "weighted_average"
    /\ WeightsPassed(last) # Omitted
    /\ Len(ScoresPassed(last)) = 2
    /\ Len(WeightsPassed(last)[1]) = 1
    /\ last.error = LengthError

\* C10: aggregate_confidence on an empty list of scores returns exactly 0.0
\* and raises no error, whichever of the three documented methods is
\* selected and whether or not weights are supplied.
C10_EmptyIsZero ==
    (/\ last.op = "aggregate_confidence"
     /\ MethodPassed(last) \in Documented
     /\ ScoresPassed(last) = <<>>) =>
        /\ last.error = NoError
        /\ last.ret = <<0>>

\* weighted_average returned 0.0 for no scores and a non-empty weights list
C10_Witness ==
    /\ Returned("aggregate_confidence")
    /\ MethodPassed(last) = "weighted_average"
    /\ ScoresPassed(last) = <<>>
    /\ WeightsPassed(last) # Omitted
    /\ Len(WeightsPassed(last)[1]) >= 1
    /\ last.ret = <<0>>

\* C11: for a non-empty list of scores, aggregate_confidence with method
\* weighted_average returns sum(score*weight)/sum(weight) when a weights list
\* of the same length with a non-zero sum is given, the unweighted
\* arithmetic mean sum(score)/n when the weights are omitted, and 0.0 when
\* the supplied weights sum to zero.
C11_WeightedAverage ==
    (/\ last.op = "aggregate_confidence"
     /\ MethodPassed(last) = "weighted_average"
     /\ ScoresPassed(last) # <<>>) =>
        LET cs == ScoresPassed(last)
            n == Len(cs)
        IN  /\ WeightsPassed(last) = Omitted =>
                 /\ last.error = NoError
                 /\ Len(last.ret) = 1
                 /\ last.ret[1] \in {FDiv(s, n * One) : s \in SumOutcomes(cs)}
                 /\ IsFloat(ExactSum(cs)) => last.ret[1] = Round(ExactSum(cs), n)
            /\ (WeightsPassed(last) # Omitted /\ Len(WeightsPassed(last)[1]) = n) =>
                 LET ws == WeightsPassed(last)[1]
                     totals == SumOutcomes(ws)
                     sums == SumOutcomes([i \in 1..n |-> FMul(cs[i], ws[i])])
                 IN  /\ last.error = NoError
                     /\ Len(last.ret) = 1
                     /\ totals = {0} => last.ret[1] = 0
                     /\ 0 \notin totals =>
                           last.ret[1] \in {FDiv(s, t) : s \in sums, t \in totals}

\* unequal weights pulled the result above the unweighted mean of the scores
C11_Witness ==
    /\ Returned("aggregate_confidence")
    /\ MethodPassed(last) = "weighted_average"
    /\ ScoresPassed(last) = <<Frac(3, 4), Frac(1, 4)>>
    /\ WeightsPassed(last) = Given(<<One, Half>>)
    /\ last.ret[1] > Half

\* the call that `last` records aggregated a non-empty list of scores in
\* [0,1] with method minimum, or with method weighted_average and omitted
\* weights or as many non-negative weights, one of them positive
MinimumCase(l) ==
    /\ l.op = "aggregate_confidence"
    /\ ScoresPassed(l) # <<>>
    /\ \A i \in 1..Len(ScoresPassed(l)) : 0 <= ScoresPassed(l)[i] /\ ScoresPassed(l)[i] <= One
    /\ MethodPassed(l) = "minimum"

AverageCase(l) ==
    /\ l.op = "aggregate_confidence"
    /\ ScoresPassed(l) # <<>>
    /\ \A i \in 1..Len(ScoresPassed(l)) : 0 <= ScoresPassed(l)[i] /\ ScoresPassed(l)[i] <= One
    /\ MethodPassed(l) = "weighted_average"
    /\ \/ WeightsPassed(l) = Omitted
       \/ /\ WeightsPassed(l) # Omitted
          /\ Len(WeightsPassed(l)[1]) = Len(ScoresPassed(l))
          /\ \A i \in 1..Len(ScoresPassed(l)) : WeightsPassed(l)[1][i] >= 0
          /\ \E i \in 1..Len(ScoresPassed(l)) : WeightsPassed(l)[1][i] > 0

----------------------------------------------------------------------------
(* GenomicFeature.overlaps and distance_to *)

\* self.sequence_id and other.sequence_id are both true and differ
DifferentSequences(self, other) ==
    /\ Truth(self.sequence_id) /\ Truth(other.sequence_id)
    /\ self.sequence_id # other.sequence_id

\* self.overlaps(other)
Overlaps_strict(self, other) ==
    IF DifferentSequences(self, other) THEN FALSE
    ELSE ~(self.end < other.start \/ other.end <= self.start)

Overlaps(self, other) ==
    IF DifferentSequences(self, other) THEN FALSE
    ELSE ~(self.end <= other.start \/ other.end <= self.start)

\* self.distance_to(other)
DistanceTo_inclusive(self, other) ==
    IF DifferentSequences(self, other) THEN -1
    ELSE IF Overlaps(self, other) THEN 0
    ELSE IF self.end <= other.start THEN other.start - self.end + 1
    ELSE self.start - other.end + 1

DistanceTo(self, other) ==
    IF DifferentSequences(self, other) THEN -1
    ELSE IF Overlaps(self, other) THEN 0
    ELSE IF self.end <= other.start THEN other.start - self.end
    ELSE self.start - other.end

\* feats[a].overlaps(feats[b]): reads both features, writes nothing
CallOverlaps(a, b) ==
    /\ a \in DOMAIN feats /\ b \in DOMAIN feats
    /\ last' = Call("overlaps", <<a, b>>, NoError, <<Overlaps(feats[a], feats[b])>>)
    /\ UNCHANGED <<confs, provs, feats, lists, dicts, flists, analyzers>>

\* feats[a].distance_to(feats[b])
CallDistanceTo(a, b) ==
    /\ a \in DOMAIN feats /\ b \in DOMAIN feats
    /\ last' = Call("distance_to", <<a, b>>, NoError, <<DistanceTo(feats[a], feats[b])>>)
    /\ UNCHANGED <<confs, provs, feats, lists, dicts, flists, analyzers>>

\* the sequence_id a caller passes: None, the empty str or a name
SequenceIds == {Omitted, Given(<<>>), Given(<<"chr1">>), Given(<<"chr2">>)}

\* the features a caller can construct on coordinates up to MaxCoord
Features ==
    {FeatureObj(x[1], x[2], "+", <<"gene">>, 1, <<>>, 1, x[3]) :
        x \in {y \in (0..MaxCoord) \X (0..MaxCoord) \X SequenceIds :
                   FeaturePostInit(y[1], y[2], "+") = NoError}}

\* two features as constructed, sharing the sample Confidence and Provenance
\* as the features of test_feature_overlaps do
InitGeometry ==
    /\ confs = <<sample_confidence>>
    /\ lists = <<sample_sources>>
    /\ dicts = <<sample_evidence>>
    /\ provs = <<sample_provenance>>
    /\ \E f1, f2 \in Features : feats = <<f1, f2>>
    /\ flists = <<>>
    /\ analyzers = <<>>
    /\ last = Call("none", <<>>, NoError, NoValue)

NextGeometry ==
    \/ \E a, b \in 1..2 : CallOverlaps(a, b)
    \/ \E a, b \in 1..2 : CallDistanceTo(a, b)

SpecGeometry == InitGeometry /\ [][NextGeometry]_vars

\* the receiver and the argument of the call that `last` records
Self(l) == feats[l.args[1]]
Arg(l) == feats[l.args[2]]

\* valid as GenomicFeature.__post_init__ requires
ValidFeature(f) == f.start >= 0 /\ f.end > f.start /\ f.strand \in {"+", "-"}

\* C12 as stated: a.overlaps(b) is false whenever both features have a
\* sequence_id other than None and the two differ; in every other case it is
\* true exactly when [a.start, a.end) and [b.start, b.end) intersect.
C12_OverlapsAsStated ==
    last.op = "overlaps" =>
        LET a == Self(last)
            b == Arg(last)
            specified == a.sequence_id # Omitted /\ b.sequence_id # Omitted
        IN  last.ret[1] =
               IF specified /\ a.sequence_id # b.sequence_id THEN FALSE
               ELSE ~(a.end <= b.start \/ b.end <= a.start)

\* C13 as stated: a.distance_to(b) returns -1 exactly when both sequence_ids
\* are other than None and differ; otherwise 0 when the features overlap,
\* and otherwise the gap between the nearer edges, which is never negative.
C13_DistanceAsStated ==
    last.op = "distance_to" =>
        LET a == Self(last)
            b == Arg(last)
            specified == a.sequence_id # Omitted /\ b.sequence_id # Omitted
            apart == specified /\ a.sequence_id # b.sequence_id
            d == last.ret[1]
        IN  /\ (d = -1) <=> apart
            /\ d >= -1
            /\ ~apart =>
                 d = IF ~(a.end <= b.start \/ b.end <= a.start) THEN 0
                     ELSE IF a.end <= b.start THEN b.start - a.end
                     ELSE a.start - b.end

\* C14: overlaps and distance_to are symmetric: for valid features a and b,
\* whatever their coordinates and sequence_ids, a.overlaps(b) equals
\* b.overlaps(a) and a.distance_to(b) equals b.distance_to(a).
C14_Symmetric ==
    /\ (last.op = "overlaps" /\ ValidFeature(Self(last)) /\ ValidFeature(Arg(last))) =>
          last.ret[1] = Overlaps(Arg(last), Self(last))
    /\ (last.op = "distance_to" /\ ValidFeature(Self(last)) /\ ValidFeature(Arg(last))) =>
          last.ret[1] = DistanceTo(Arg(last), Self(last))

\* the distance from the later of two separated features to the earlier one
\* was asked for, one of them without a sequence_id
C14_Witness ==
    /\ Returned("distance_to")
    /\ Self(last).start > Arg(last).end
    /\ Self(last).sequence_id = Omitted
    /\ Arg(last).sequence_id # Omitted
    /\ last.ret[1] = Self(last).start - Arg(last).end
    /\ last.ret[1] > 0

\* C26: for two features that are not on different, both specified
\* sequences, distance_to returns 0 exactly when the features overlap or
\* abut (a.end = b.start or b.end = a.start) and a value >= 1 exactly when
\* at least one position lies strictly between them, so that a distance of 0
\* does not imply that overlaps is true; every feature has distance 0 to
\* itself and overlaps itself.
C26_DistanceZero ==
    LET a == Self(last)
        b == Arg(last)
        comparable == ~(/\ a.sequence_id # Omitted /\ b.sequence_id # Omitted
                        /\ a.sequence_id # b.sequence_id)
        intersect == \E p \in 0..MaxCoord :
                        /\ a.start <= p /\ p < a.end
                        /\ b.start <= p /\ p < b.end
        abut == a.end = b.start \/ b.end = a.start
        between == \E p \in 0..MaxCoord :
                      \/ a.end <= p /\ p < b.start
                      \/ b.end <= p /\ p < a.start
    IN  /\ (last.op = "distance_to" /\ comparable) =>
              /\ (last.ret[1] = 0) <=> (intersect \/ abut)
              /\ (last.ret[1] >= 1) <=> between
              /\ last.ret[1] >= 0
              /\ last.args[1] = last.args[2] => last.ret[1] = 0
        /\ (last.op = "overlaps" /\ comparable) =>
              /\ last.ret[1] = intersect
              /\ last.args[1] = last.args[2] => last.ret[1] = TRUE

\* two features that abut have distance 0 and do not overlap
C26_Witness ==
    /\ Returned("distance_to")
    /\ last.ret[1] = 0
    /\ Self(last).end = Arg(last).start
    /\ ~Overlaps(Self(last), Arg(last))
    /\ Self(last).sequence_id = Given(<<"chr1">>)
    /\ Arg(last).sequence_id = Omitted

----------------------------------------------------------------------------
(* GenomicFeature.to_gff3 *)

Tab == "\t"

\* sep.join(parts) on strs
RECURSIVE Join(_, _)
Join(parts, sep) ==
    IF parts = <<>> THEN <<>>
    ELSE IF Len(parts) = 1 THEN parts[1]
    ELSE parts[1] \o sep \o Join(Tail(parts), sep)

\* line.split("\t")
RECURSIVE Split(_)
Split(line) ==
    IF Tab \notin Range(line) THEN <<line>>
    ELSE LET i == CHOOSE j \in 1..Len(line) :
                     line[j] = Tab /\ \A k \in 1..(j - 1) : line[k] # Tab
         IN  <<SubSeq(line, 1, i - 1)>> \o Split(SubSeq(line, i + 1, Len(line)))

\* str(n) of an int
Str(n) == <<ToString(n)>>

\* x >= 0 in thousandths, rounded to nearest, ties to even: the float is
\* converted from its exact binary value
Thousandths(x) ==
    LET n == x * 1000
        q == n \div Unit
        r == n % Unit
    IN  IF 2 * r > Unit \/ (2 * r = Unit /\ q % 2 = 1) THEN q + 1 ELSE q

\* f"{x:.3f}"
Format3(x) ==
    LET t == Thousandths(IF x < 0 THEN -x ELSE x)
    IN  (IF x < 0 THEN <<"-">> ELSE <<>>)
        \o <<ToString(t \div 1000), ".", ToString((t \div 100) % 10),
             ToString((t \div 10) % 10), ToString(t % 10)>>

\* for key, value in attributes.items(): if key not in ("id", "name"):
\*     attr_parts.append(f"{key}={value}")
RECURSIVE OtherAttributes_all(_)
OtherAttributes_all(items) ==
    IF items = <<>> THEN <<>>
    ELSE <<Head(items)[1] \o <<"=">> \o Head(items)[2]>>
         \o OtherAttributes_all(Tail(items))

RECURSIVE OtherAttributes(_)
OtherAttributes(items) ==
    IF items = <<>> THEN <<>>
    ELSE (IF Head(items)[1] \notin {<<"id">>, <<"name">>}
          THEN <<Head(items)[1] \o <<"=">> \o Head(items)[2]>>
          ELSE <<>>)
         \o OtherAttributes(Tail(items))

\* attr_parts of feature f whose Confidence is c
AttrParts(f, c) ==
    (IF <<"id">> \in DictKeys(f.attributes)
     THEN <<<<"ID=">> \o DictValue(f.attributes, <<"id">>)>> ELSE <<>>)
    \o (IF <<"name">> \in DictKeys(f.attributes)
        THEN <<<<"Name=">> \o DictValue(f.attributes, <<"name">>)>> ELSE <<>>)
    \o <<<<"confidence=">> \o Format3(c.score)>>
    \o <<<<"confidence_method=">> \o c.method>>
    \o OtherAttributes(f.attributes)

\* the eight columns before the attributes
Columns(f, c, pr) ==
    <<IF Truth(f.sequence_id) THEN f.sequence_id[1] ELSE <<".">>,
      pr.analyzer, f.feature_type, Str(f.start + 1), Str(f.end),
      Format3(c.score), <<f.strand>>, <<".">> >>

\* f.to_gff3() for feature f with Confidence c and Provenance pr
ToGff3(f, c, pr) ==
    Join(Columns(f, c, pr) \o <<Join(AttrParts(f, c), <<";">>)>>, <<Tab>>)

\* feats[a].to_gff3(): reads the feature, its Confidence and its Provenance
CallToGff3(a) ==
    /\ a \in DOMAIN feats
    /\ last' = Call("to_gff3", <<a>>, NoError,
                    <<ToGff3(feats[a], confs[feats[a].confidence],
                             provs[feats[a].provenance])>>)
    /\ UNCHANGED <<confs, provs, feats, lists, dicts, flists, analyzers>>

\* feats[a].attributes[k] = v; the caller keeps to the keys in AttrKeys
SetAttribute(a, k, v) ==
    /\ a \in DOMAIN feats
    /\ feats' = [feats EXCEPT ![a].attributes = DictSet(@, k, v)]
    /\ last' = Call("setitem", <<>>, NoError, NoValue)
    /\ UNCHANGED <<confs, provs, lists, dicts, flists, analyzers>>

\* what a caller puts in a feature it serialises
AttrKeys == {<<"id">>, <<"name">>, <<"note">>}
AttrValues == {<<"gene1">>, <<"x", Tab, "y">>}
FeatureTypes == {<<"gene">>, <<"ge", Tab, "ne">>}
Gff3Scores == {0, Frac(1, 16), Frac(3, 4), One}

\* one feature as constructed, with no attributes yet
InitGff3 ==
    /\ \E sc \in Gff3Scores : confs = <<ConfidenceObj(sc, <<"test">>, 1, 1)>>
    /\ lists = <<sample_sources>>
    /\ dicts = <<sample_evidence>>
    /\ provs = <<sample_provenance>>
    /\ \E q \in SequenceIds, t \in FeatureTypes, d \in {"+", "-"} :
          feats = <<FeatureObj(MaxCoord - 1, MaxCoord, d, t, 1, <<>>, 1, q)>>
    /\ flists = <<>>
    /\ analyzers = <<>>
    /\ last = Call("none", <<>>, NoError, NoValue)

NextGff3 ==
    \/ CallToGff3(1)
    \/ \E k \in AttrKeys, v \in AttrValues : SetAttribute(1, k, v)

SpecGff3 == InitGff3 /\ [][NextGff3]_vars

\* the feature serialised by the call that `last` records
Serialised(l) == feats[l.args[1]]

\* the value a decimal digit stands for
DigitValue(p) == CHOOSE d \in 0..9 : ToString(d) = p

\* C15 as stated: for every valid feature, to_gff3 returns a single line
\* that splits on tab into exactly 9 fields, in this order: sequence_id (or
\* '.' when there is none), provenance.analyzer, feature_type, start+1, end
\* unchanged, the confidence score with 3 decimals, strand, the literal '.',
\* and the attribute string.
C15_NineFieldsAsStated ==
    (last.op = "to_gff3" /\ ValidFeature(Serialised(last))) =>
        LET f == Serialised(last)
            score == confs[f.confidence].score
            line == last.ret[1]
            parts == Split(line)
        IN  /\ "\n" \notin Range(line)
            /\ Len(parts) = 9
            /\ parts[1] = IF Truth(f.sequence_id) THEN f.sequence_id[1] ELSE <<".">>
            /\ parts[2] = provs[f.provenance].analyzer
            /\ parts[3] = f.feature_type
            /\ parts[4] = <<ToString(f.start + 1)>>
            /\ parts[5] = <<ToString(f.end)>>
            /\ Len(parts[6]) = 5
            /\ parts[6][2] = "."
            /\ LET t == 1000 * DigitValue(parts[6][1]) + 100 * DigitValue(parts[6][3])
                        + 10 * DigitValue(parts[6][4]) + DigitValue(parts[6][5])
                   diff == 1000 * score - t * Unit
               IN  -Unit <= 2 * diff /\ 2 * diff <= Unit
            /\ parts[7] = <<f.strand>>
            /\ parts[8] = <<".">>
            /\ parts[9] = Join(AttrParts(f, confs[f.confidence]), <<";">>)

\* C16: the attribute column of the GFF3 line, its ninth, is the ';'-joined
\* sequence: 'ID=<v>' first if and only if the attributes have key 'id',
\* then 'Name=<v>' if and only if they have key 'name', then always
\* 'confidence=<score>' and 'confidence_method=<method>', then one
\* 'key=value' entry for every other attribute in the map's iteration order;
\* 'id' and 'name' are not emitted a second time and no other attribute is
\* omitted.
C16_AttributeColumn ==
    last.op = "to_gff3" =>
        LET f == Serialised(last)
            c == confs[f.confidence]
            attrs == f.attributes
            Has(k) == \E i \in 1..Len(attrs) : attrs[i][1] = k
            Val(k) == attrs[CHOOSE i \in 1..Len(attrs) : attrs[i][1] = k][2]
            IsOther(item) == item[1] # <<"id">> /\ item[1] # <<"name">>
            others == SelectSeq(attrs, IsOther)
            expected ==
                (IF Has(<<"id">>) THEN <<<<"ID=">> \o Val(<<"id">>)>> ELSE <<>>)
                \o (IF Has(<<"name">>) THEN <<<<"Name=">> \o Val(<<"name">>)>> ELSE <<>>)
                \o <<<<"confidence=">> \o Format3(c.score),
                     <<"confidence_method=">> \o c.method>>
                \o [i \in 1..Len(others) |-> others[i][1] \o <<"=">> \o others[i][2]]
            column == Join(expected, <<";">>)
            line == last.ret[1]
        IN  /\ line = Join(Columns(f, c, provs[f.provenance]), <<Tab>>)
                      \o <<Tab>> \o column
            /\ Len(Split(line)) = 9 => Split(line)[9] = column

\* a feature whose attributes were set in the order note, name, id was
\* serialised, and its attribute column starts with the ID
C16_Witness ==
    /\ Returned("to_gff3")
    /\ Len(Serialised(last).attributes) = 3
    /\ Serialised(last).attributes[1][1] = <<"note">>
    /\ Serialised(last).attributes[2][1] = <<"name">>
    /\ Serialised(last).attributes[3][1] = <<"id">>
    /\ Len(Split(last.ret[1])) = 9
    /\ Split(last.ret[1])[9][1] = "ID="
    /\ Split(last.ret[1])[9][Len(Split(last.ret[1])[9]) - 2] = "note"

----------------------------------------------------------------------------
(* SequenceScale *)

\* a member of the SequenceScale enum, by its value
Scale(v) == <<"SequenceScale", v>>

\* the list `order` of __lt__
order ==
    <<Scale("nucleotide"), Scale("motif"), Scale("domain"), Scale("gene"),
      Scale("operon"), Scale("chromosome"), Scale("genome")>>

\* the members of the enum
SequenceScale == Range(order)

\* order.index(x)
Index(x) == CHOOSE i \in 1..Len(order) : order[i] = x

\* isinstance(other, SequenceScale)
IsScale(other) == other[1] = "SequenceScale"

\* self.__lt__(other) for a SequenceScale other
ScaleLt(self, other) == Index(self) < Index(other)

\* self.__gt__(other) for a SequenceScale other
ScaleGt_notlt(self, other) == ~ScaleLt(self, other)

ScaleGt(self, other) == ~ScaleLt(self, other) /\ self # other

ComparisonError == <<"TypeError", "not supported between instances">>

\* self < other, self > other or self == other.  For an other that is no
\* SequenceScale, __lt__ and __gt__ return NotImplemented, the reflected
\* method of the other type does too, and the interpreter raises TypeError;
\* == falls back to identity.
Compare(op, self, other) ==
    /\ self \in SequenceScale
    /\ last' = IF op = "==" THEN Call(op, <<self, other>>, NoError, <<self = other>>)
               ELSE IF ~IsScale(other)
               THEN Call(op, <<self, other>>, ComparisonError, NoValue)
               ELSE IF op = "<"
               THEN Call(op, <<self, other>>, NoError, <<ScaleLt(self, other)>>)
               ELSE Call(op, <<self, other>>, NoError, <<ScaleGt(self, other)>>)
    /\ UNCHANGED <<confs, provs, feats, lists, dicts, flists, analyzers>>

\* what a caller compares a scale with: the scales and a plain str
Comparands == SequenceScale \cup {<<"str", "gene">>}

InitScale ==
    /\ EmptyHeap
    /\ last = Call("none", <<>>, NoError, NoValue)

NextScale ==
    \E op \in {"<", ">", "=="}, self \in SequenceScale, other \in Comparands :
       Compare(op, self, other)

SpecScale == InitScale /\ [][NextScale]_vars

\* C17: the comparison on the seven Scale values is a strict total order
\* following the chain nucleotide < motif < domain < gene < operon <
\* chromosome < genome: '<' is irreflexive and transitive, for any two Scale
\* values a and b exactly one of a < b, a == b, a > b holds, and a > b holds
\* exactly when b < a.
C17_StrictTotalOrder ==
    (last.op \in {"<", ">", "=="} /\ IsScale(last.args[2])) =>
        LET a == last.args[1]
            b == last.args[2]
            chain == <<"nucleotide", "motif", "domain", "gene", "operon",
                       "chromosome", "genome">>
            rank(x) == CHOOSE i \in 1..7 : x = Scale(chain[i])
            lt == ScaleLt(a, b)
            gt == ScaleGt(a, b)
            eq == (a = b)
        IN  /\ last.error = NoError
            /\ last.op = "<" => last.ret[1] = (rank(a) < rank(b))
            /\ last.op = ">" => last.ret[1] = (rank(a) > rank(b))
            /\ last.op = "==" => last.ret[1] = (rank(a) = rank(b))
            /\ ~ScaleLt(a, a)
            /\ \A c \in SequenceScale : (lt /\ ScaleLt(b, c)) => ScaleLt(a, c)
            /\ (lt /\ ~eq /\ ~gt) \/ (~lt /\ eq /\ ~gt) \/ (~lt /\ ~eq /\ gt)
            /\ gt <=> ScaleLt(b, a)

\* genome > nucleotide was evaluated and is true
C17_Witness ==
    /\ Returned(">")
    /\ last.args = <<Scale("genome"), Scale("nucleotide")>>
    /\ last.ret = <<TRUE>>

----------------------------------------------------------------------------
(* Confidence.get_level *)

\* the float a decimal literal n/d denotes: the float nearest to it
Dec(n, d) == Round(n * Unit, d)

\* self.get_level() on the score
GetLevelOf_exclusive(score) ==
    IF score >= Dec(8, 10) THEN "Very high"
    ELSE IF score > Dec(6, 10) THEN "High"
    ELSE IF score >= Dec(4, 10) THEN "Moderate"
    ELSE IF score >= Dec(2, 10) THEN "Low"
    ELSE "Very low"

GetLevelOf(score) ==
    IF score >= Dec(8, 10) THEN "Very high"
    ELSE IF score >= Dec(6, 10) THEN "High"
    ELSE IF score >= Dec(4, 10) THEN "Moderate"
    ELSE IF score >= Dec(2, 10) THEN "Low"
    ELSE "Very low"

\* confs[c].get_level(): reads the score, writes nothing
GetLevel(c) ==
    /\ c \in DOMAIN confs
    /\ last' = Call("get_level", <<c>>, NoError, <<GetLevelOf(confs[c].score)>>)
    /\ UNCHANGED <<confs, provs, feats, lists, dicts, flists, analyzers>>

\* every float from just below 0.0 to just above 1.0
LevelScores == {k \in (0 - 1)..Frac(5, 4) : IsFloat(k)}

InitLevel ==
    /\ EmptyHeap
    /\ last = Call("none", <<>>, NoError, NoValue)

\* c = Confidence(score, ...) and c.get_level(), as test_confidence_levels
NextLevel ==
    \/ \E s \in LevelScores, l \in {<<>>, <<"s1">>} :
          NewConfidence(0, s, <<"test">>, l, <<>>)
    \/ \E c \in DOMAIN confs : GetLevel(c)

SpecLevel == InitLevel /\ [][NextLevel]_vars

\* the five bands from the lowest to the highest
Bands == <<"Very low", "Low", "Moderate", "High", "Very high">>
BandRank(b) == CHOOSE i \in 1..Len(Bands) : Bands[i] = b

\* C18: get_level maps every valid score to exactly one of five bands with
\* lower bounds inclusive: score >= 0.8 gives 'Very high', 0.6 <= score <
\* 0.8 'High', 0.4 <= score < 0.6 'Moderate', 0.2 <= score < 0.4 'Low',
\* score < 0.2 'Very low'; the band never decreases when the score
\* increases.  0.8, 0.6, 0.4 and 0.2 are the floats these literals denote.
C18_Bands ==
    (last.op = "get_level" /\ 0 <= confs[last.args[1]].score
                           /\ confs[last.args[1]].score <= One) =>
        LET score == confs[last.args[1]].score
            level == last.ret[1]
        IN  /\ last.error = NoError
            /\ level \in Range(Bands)
            /\ (level = "Very high") <=> score >= Dec(8, 10)
            /\ (level = "High") <=> (Dec(6, 10) <= score /\ score < Dec(8, 10))
            /\ (level = "Moderate") <=> (Dec(4, 10) <= score /\ score < Dec(6, 10))
            /\ (level = "Low") <=> (Dec(2, 10) <= score /\ score < Dec(4, 10))
            /\ (level = "Very low") <=> score < Dec(2, 10)
            /\ \A higher \in LevelScores :
                  (score <= higher /\ higher <= One) =>
                      BandRank(level) <= BandRank(GetLevelOf(higher))

\* the level of a score equal to the threshold 0.6 was asked for
C18_Witness ==
    /\ Returned("get_level")
    /\ confs[last.args[1]].score = Dec(6, 10)
    /\ last.ret = <<"High">>

----------------------------------------------------------------------------
(* SequenceAnalyzer.validate_sequence *)

\* a SimpleTestAnalyzer instance
SimpleTestAnalyzer(param1) == [class |-> "SimpleTestAnalyzer", param1 |-> param1]

\* set("ATGCUN")
valid_bases == {"A", "T", "G", "C", "U", "N"}

\* ch.upper() of one character: a str, for the upper case of a character
\* can be longer than the character
UpperChar(ch) ==
    CASE ch = "a" -> <<"A">>
      [] ch = "t" -> <<"T">>
      [] ch = "g" -> <<"G">>
      [] ch = "c" -> <<"C">>
      [] ch = "u" -> <<"U">>
      [] ch = "n" -> <<"N">>
      [] ch = "x" -> <<"X">>
      [] ch = "ß" -> <<"S", "S">>
      [] OTHER -> <<ch>>

\* sequence.upper()
RECURSIVE Upper(_)
Upper(sequence) ==
    IF sequence = <<>> THEN <<>>
    ELSE UpperChar(Head(sequence)) \o Upper(Tail(sequence))

InvalidCharsError(invalid_chars) ==
    <<"ValueError", "Sequence contains invalid characters", invalid_chars>>

\* validate_sequence on the characters of a str: the exception it raises,
\* NoError if it returns
ValidateOutcome_casesensitive(sequence) ==
    LET invalid_chars == Range(sequence) \ valid_bases
    IN  IF invalid_chars # {} THEN InvalidCharsError(invalid_chars) ELSE NoError

ValidateOutcome(sequence) ==
    LET sequence_upper == Upper(sequence)
        invalid_chars == Range(sequence_upper) \ valid_bases
    IN  IF invalid_chars # {} THEN InvalidCharsError(invalid_chars) ELSE NoError

\* analyzers[a].validate_sequence(sequence): works on local values only
ValidateSequence(a, sequence) ==
    /\ a \in DOMAIN analyzers
    /\ last' = Call("validate_sequence", <<a, sequence>>, ValidateOutcome(sequence),
                    NoValue)
    /\ UNCHANGED <<confs, provs, feats, lists, dicts, flists, analyzers>>

\* the characters a caller puts in a sequence, and the sequences
Characters == {"A", "g", "X", "x", "ß"}
Sequences == ListsUpTo(Characters, MaxSeq)

\* analyzer = SimpleTestAnalyzer() or SimpleTestAnalyzer("custom")
InitValidate ==
    /\ confs = <<>>
    /\ provs = <<>>
    /\ feats = <<>>
    /\ lists = <<>>
    /\ dicts = <<>>
    /\ flists = <<>>
    /\ \E p \in {"default", "custom"} : analyzers = <<SimpleTestAnalyzer(p)>>
    /\ last = Call("none", <<>>, NoError, NoValue)

NextValidate ==
    \E sequence \in Sequences : ValidateSequence(1, sequence)

SpecValidate == InitValidate /\ [][NextValidate]_vars

\* C19: validate_sequence returns without error if and only if every
\* character of the sequence, compared case-insensitively, is one of A, T,
\* G, C, U, N; otherwise it fails with an invalid-input error whose reported
\* set is exactly the set of offending characters, upper-cased; it never
\* changes the analyzer or the sequence.
C19_ValidateSequence ==
    [][last'.op = "validate_sequence" =>
         LET sequence == last'.args[2]
             accepted == {"A", "T", "G", "C", "U", "N", "a", "t", "g", "c", "u", "n"}
             offending == {i \in 1..Len(sequence) : sequence[i] \notin accepted}
         IN  /\ (last'.error = NoError) <=> offending = {}
             /\ last'.ret = NoValue
             /\ offending # {} =>
                  /\ last'.error[1] = "ValueError"
                  /\ last'.error[3] =
                        UNION {Range(UpperChar(sequence[i])) : i \in offending}
             /\ analyzers' = analyzers
             /\ <<confs', provs', feats', lists', dicts', flists'>>
                   = <<confs, provs, feats, lists, dicts, flists>>]_vars

\* a sequence with a valid lower-case base and two offending characters
\* that differ only in case was rejected, and one character is reported
C19_Witness ==
    /\ Raised("validate_sequence")
    /\ last.args[2] = <<"g", "x", "X">>
    /\ last.error[3] = {"X"}

----------------------------------------------------------------------------
(* SimpleTestBridge.bridge *)

\* an instance of a concrete ScaleBridge that implements bridge as
\* SimpleTestBridge does and whose scale properties return the given scales
ConcreteBridge(input_scale, output_scale) ==
    [class |-> "SimpleTestBridge", input_scale |-> input_scale,
     output_scale |-> output_scale]

\* a SimpleTestBridge instance: it has no fields of its own, its scales are
\* properties of the class
SimpleTestBridge == ConcreteBridge(Scale("motif"), Scale("gene"))

\* min(...) and max(...) of a non-empty list of ints
SeqMax(s) == CHOOSE x \in Range(s) : \A y \in Range(s) : y <= x

\* datetime.utcnow().isoformat() + "Z": the time of the call, which
\* Provenance.__post_init__ accepts
UtcNow == "utcnow().isoformat()Z"

\* Provenance.create_now(analyzer, version, parameters, dependencies):
\* `dependencies or []`, no references
CreateNow(analyzer, version, parameters, dependencies) ==
    ProvenanceObj(analyzer, version, parameters, UtcNow, dependencies, <<>>)

\* [f.provenance.analyzer for f in lower_scale_features]
Dependencies(fs) == [i \in 1..Len(fs) |-> provs[feats[fs[i]].provenance].analyzer]

\* genes = analyzers[b].bridge([feats[i] for i in fs]) while the first
\* `keep` objects of every heap stay referenced.  An exception of a
\* constructor propagates to the caller and nothing it built stays
\* referenced.
Bridge(keep, b, fs) ==
    /\ b \in DOMAIN analyzers /\ analyzers[b].class = "SimpleTestBridge"
    /\ Range(fs) \subseteq DOMAIN feats
    /\ IF fs = <<>>
       THEN /\ last' = Call("bridge", <<b, fs>>, NoError, <<<<>>>>)
            /\ UNCHANGED <<confs, provs, feats, lists, dicts, flists, analyzers>>
       ELSE \E o \in AggregateOutcomes([i \in 1..Len(fs) |-> confs[feats[fs[i]].confidence].score],
                                       "weighted_average", Omitted) :
              LET start == SeqMin([i \in 1..Len(fs) |-> feats[fs[i]].start])
                  end == SeqMax([i \in 1..Len(fs) |-> feats[fs[i]].end])
                  err == IF o[1] # NoError THEN o[1]
                         ELSE IF ConfidencePostInit(o[2][1], <<"motif_integration">>) # NoError
                         THEN ConfidencePostInit(o[2][1], <<"motif_integration">>)
                         ELSE FeaturePostInit(start, end, "+")
              IN  IF err # NoError
                  THEN /\ last' = Call("bridge", <<b, fs>>, err, NoValue)
                       /\ UNCHANGED <<confs, provs, feats, lists, dicts, flists, analyzers>>
                  ELSE /\ lists' = Append(Keep(lists, keep), <<"motif_integration">>)
                       /\ dicts' = Append(Keep(dicts, keep), <<<<"num_motifs", Len(fs)>>>>)
                       /\ confs' = Append(Keep(confs, keep),
                                          ConfidenceObj(o[2][1], <<"aggregated">>,
                                                        keep + 1, keep + 1))
                       /\ provs' = Append(Keep(provs, keep),
                                          CreateNow(<<"SimpleTestBridge">>, "0.1.0", <<>>,
                                                    Dependencies(fs)))
                       /\ feats' = Append(Keep(feats, keep),
                                          FeatureObj(start, end, "+", <<"gene">>, keep + 1,
                                                     <<>>, keep + 1, Omitted))
                       /\ last' = Call("bridge", <<b, fs>>, NoError, <<<<keep + 1>>>>)
                       /\ UNCHANGED <<flists, analyzers>>

\* the analyzers that produced the inputs, and the scores of the inputs
AnalyzerNames == {<<"AnalyzerA">>, <<"AnalyzerB">>}
BridgeScores == {Frac(1, 4), One}

\* two motif features as two analyzer runs produced them, each with its own
\* Confidence and Provenance, and a bridge
InitBridge ==
    /\ \E s1, s2 \in BridgeScores :
          confs = <<ConfidenceObj(s1, <<"direct_measurement">>, 1, 1),
                    ConfidenceObj(s2, <<"direct_measurement">>, 2, 2)>>
    /\ lists = <<<<"sequence_length">>, <<"sequence_length">>>>
    /\ dicts = <<<<>>, <<>>>>
    /\ \E a1, a2 \in AnalyzerNames :
          provs = <<CreateNow(a1, "0.1.0", <<>>, <<>>), CreateNow(a2, "0.1.0", <<>>, <<>>)>>
    /\ \E f1, f2 \in {f \in Features : f.sequence_id = Omitted} :
          feats = <<[f1 EXCEPT !.feature_type = <<"motif">>],
                    [f2 EXCEPT !.feature_type = <<"motif">>, !.confidence = 2,
                               !.provenance = 2]>>
    /\ flists = <<>>
    /\ analyzers = <<SimpleTestBridge>>
    /\ last = Call("none", <<>>, NoError, NoValue)

\* genes = bridge.bridge(motif_features) on a list of the two inputs
NextBridge ==
    \E fs \in ListsUpTo(1..2, MaxLen) : Bridge(2, 1, fs)

SpecBridge == InitBridge /\ [][NextBridge]_vars

\* C20 as stated: every feature a bridge returns records in
\* provenance.dependencies the distinct analyzer names of all input features
\* that contributed to it: the analyzer of each input appears in the list,
\* and each name appears only once even when several inputs came from the
\* same analyzer.
C20_DistinctDependencies ==
    Returned("bridge") =>
        \A i \in 1..Len(last.ret[1]) :
           LET dependencies == provs[feats[last.ret[1][i]].provenance].dependencies
               inputs == last.args[2]
           IN  /\ \A j \in 1..Len(inputs) :
                     provs[feats[inputs[j]].provenance].analyzer \in Range(dependencies)
               /\ Len(dependencies) = Cardinality(Range(dependencies))

----------------------------------------------------------------------------
(* SimpleTestAnalyzer.analyze *)

\* self.name of an analyzer or bridge of the reference classes
Name(o) == <<o.class>>

\* self.get_version(): genomesim.__version__
GetVersion == "0.1.0"

\* self.get_parameters(): a new dict on every call
GetParameters_default(o) == << <<"param1", "default">> >>

GetParameters(o) == << <<"param1", o.param1>> >>

\* the exception analyze raises on a sequence, NoError if it returns:
\* validate_sequence first, then the constructors in the order of the calls
AnalyzeError_novalidate(sequence) ==
    IF ConfidencePostInit(One, <<"sequence_length">>) # NoError
    THEN ConfidencePostInit(One, <<"sequence_length">>)
    ELSE FeaturePostInit(0, Len(sequence), "+")

AnalyzeError(sequence) ==
    IF ValidateOutcome(sequence) # NoError THEN ValidateOutcome(sequence)
    ELSE IF ConfidencePostInit(One, <<"sequence_length">>) # NoError
    THEN ConfidencePostInit(One, <<"sequence_length">>)
    ELSE FeaturePostInit(0, Len(sequence), "+")

\* features = analyzers[a].analyze(sequence, sequence_id) while the first
\* `keep` objects of every heap stay referenced.  An exception propagates to
\* the caller and nothing analyze built before it stays referenced.
Analyze(keep, a, sequence, sequence_id) ==
    /\ a \in DOMAIN analyzers /\ analyzers[a].class = "SimpleTestAnalyzer"
    /\ LET err == AnalyzeError(sequence)
           args == <<a, sequence, sequence_id>>
       IN  IF err # NoError
           THEN /\ last' = Call("analyze", args, err, NoValue)
                /\ UNCHANGED <<confs, provs, feats, lists, dicts, flists, analyzers>>
           ELSE /\ lists' = Append(Keep(lists, keep), <<"sequence_length">>)
                /\ dicts' = Append(Keep(dicts, keep), << <<"length", Len(sequence)>> >>)
                /\ confs' = Append(Keep(confs, keep),
                                   ConfidenceObj(One, <<"direct_measurement">>,
                                                 keep + 1, keep + 1))
                /\ provs' = Append(Keep(provs, keep),
                                   CreateNow(Name(analyzers[a]), GetVersion,
                                             GetParameters(analyzers[a]), <<>>))
                /\ feats' = Append(Keep(feats, keep),
                                   FeatureObj(0, Len(sequence), "+", <<"test_feature">>,
                                              keep + 1, << <<"length", Len(sequence)>> >>,
                                              keep + 1, sequence_id))
                /\ last' = Call("analyze", args, NoError, <<<<keep + 1>>>>)
                /\ UNCHANGED <<flists, analyzers>>

\* analyzer = SimpleTestAnalyzer(param1): the caller's variable is rebound
NewAnalyzer(a, param1) ==
    /\ a \in DOMAIN analyzers
    /\ analyzers' = [analyzers EXCEPT ![a] = SimpleTestAnalyzer(param1)]
    /\ last' = Call("SimpleTestAnalyzer", <<param1>>, NoError, <<a>>)
    /\ UNCHANGED <<confs, provs, feats, lists, dicts, flists>>

\* the sequences and sequence ids passed to analyze
AnalyzedSequences == ListsUpTo({"A", "g", "X"}, MaxSeq)
AnalyzedIds == {Omitted, Given(<<"test_seq">>)}

InitAnalyze == InitValidate

\* features = analyzer.analyze(sequence, sequence_id), or a new analyzer
NextAnalyze ==
    \/ \E sequence \in AnalyzedSequences, sequence_id \in AnalyzedIds :
          Analyze(0, 1, sequence, sequence_id)
    \/ \E p \in {"default", "custom"} : NewAnalyzer(1, p)

SpecAnalyze == InitAnalyze /\ [][NextAnalyze]_vars

\* C21: every feature analyze returns carries a Confidence and a Provenance
\* whose analyzer field is the analyzer's name and whose parameters are what
\* get_parameters() gives when analyze is called, and its coordinates lie
\* inside the input sequence: 0 <= start < end <= len(sequence).
C21_EmittedFeatures ==
    [][(last'.op = "analyze" /\ last'.error = NoError) =>
         LET analyzer == analyzers[last'.args[1]]
             sequence == last'.args[2]
         IN  \A i \in 1..Len(last'.ret[1]) :
                LET f == feats'[last'.ret[1][i]]
                IN  /\ f.confidence \in DOMAIN confs'
                    /\ ConfidencePostInit(confs'[f.confidence].score,
                                          lists'[confs'[f.confidence].sources]) = NoError
                    /\ f.provenance \in DOMAIN provs'
                    /\ provs'[f.provenance].analyzer = <<"SimpleTestAnalyzer">>
                    /\ provs'[f.provenance].parameters = << <<"param1", analyzer.param1>> >>
                    /\ 0 <= f.start /\ f.start < f.end /\ f.end <= Len(sequence)]_vars

\* an analyzer constructed with param1="custom" analysed a sequence of two
\* bases, and the feature records that parameter
C21_Witness ==
    /\ Returned("analyze")
    /\ Len(last.args[2]) = 2
    /\ analyzers[last.args[1]].param1 = "custom"
    /\ provs[feats[last.ret[1][1]].provenance].parameters = << <<"param1", "custom">> >>
    /\ feats[last.ret[1][1]].end = 2

\* C28: analyze returns exactly one feature spanning [0, len(sequence)) for
\* every non-empty sequence of accepted characters; it returns nothing and
\* fails with the error of validate_sequence, no object built, for a
\* sequence with a character outside the alphabet, and with the error of the
\* GenomicFeature constructor for the empty sequence, which validate_sequence
\* accepts.
C28_AnalyzeOutcomes ==
    [][last'.op = "analyze" =>
         LET sequence == last'.args[2]
             accepted == {"A", "T", "G", "C", "U", "N", "a", "t", "g", "c", "u", "n"}
             unchanged == <<confs', provs', feats', lists', dicts'>>
                             = <<confs, provs, feats, lists, dicts>>
         IN  IF \E i \in 1..Len(sequence) : sequence[i] \notin accepted
             THEN /\ last'.error = ValidateOutcome(sequence)
                  /\ last'.error[2] = "Sequence contains invalid characters"
                  /\ last'.ret = NoValue
                  /\ unchanged
             ELSE IF sequence = <<>>
             THEN /\ ValidateOutcome(sequence) = NoError
                  /\ last'.error = EndError
                  /\ last'.ret = NoValue
                  /\ unchanged
             ELSE /\ last'.error = NoError
                  /\ Len(last'.ret[1]) = 1
                  /\ feats'[last'.ret[1][1]].start = 0
                  /\ feats'[last'.ret[1][1]].end = Len(sequence)]_vars

\* the empty sequence was rejected by the GenomicFeature constructor
C28_Witness ==
    /\ Raised("analyze")
    /\ last.args[2] = <<>>
    /\ last.error = EndError

----------------------------------------------------------------------------
(* Features built from one Confidence and one Provenance *)

\* f.confidence.score = v through a feature
AssignScoreThrough(f, v) ==
    /\ f \in DOMAIN feats
    /\ AssignScore(feats[f].confidence, v)

\* conf and prov of test_bridge_method, no feature yet
InitShare == InitFeature

\* motifs = [GenomicFeature(.., conf, {}, prov), GenomicFeature(.., conf, {},
\* prov)] built one element after the other, or a score assigned through a
\* feature
NextShare ==
    \/ \E keep \in 0..Len(feats), start, end \in 0..MaxCoord :
          /\ keep <= 1
          /\ NewFeature(keep, start, end, "+", <<"motif">>, 1, <<>>, 1, Omitted)
    \/ \E f \in DOMAIN feats, v \in {Frac(1, 4), Frac(3, 4)} : AssignScoreThrough(f, v)

SpecShare == InitShare /\ [][NextShare]_vars

\* C22 as stated: a feature exclusively owns its Confidence and its
\* Provenance: no Confidence object and no Provenance object is referenced
\* by two different features.
C22_ExclusiveOwnership ==
    \A f, g \in DOMAIN feats :
       f # g => /\ feats[f].confidence # feats[g].confidence
                /\ feats[f].provenance # feats[g].provenance

----------------------------------------------------------------------------
(* An analyzer and a bridge used one after the other *)

\* analyzers[b].validate_input_scale([feats[i] for i in fs]): the loop
\* compares and passes, whatever the feature types are
ValidateInputScale(b, fs) ==
    /\ b \in DOMAIN analyzers /\ "input_scale" \in DOMAIN analyzers[b]
    /\ Range(fs) \subseteq DOMAIN feats
    /\ last' = Call("validate_input_scale", <<b, fs>>, NoError, NoValue)
    /\ UNCHANGED <<confs, provs, feats, lists, dicts, flists, analyzers>>

\* bridge = B() for a concrete subclass B of ScaleBridge whose properties
\* return the given scales: the abstract base class accepts every class that
\* defines the abstract members
NewBridge(b, input_scale, output_scale) ==
    /\ b \in DOMAIN analyzers /\ "input_scale" \in DOMAIN analyzers[b]
    /\ input_scale \in SequenceScale /\ output_scale \in SequenceScale
    /\ analyzers' = [analyzers EXCEPT ![b] = ConcreteBridge(input_scale, output_scale)]
    /\ last' = Call("ScaleBridge", <<input_scale, output_scale>>, NoError, <<b>>)
    /\ UNCHANGED <<confs, provs, feats, lists, dicts, flists>>

\* the sequences analysed and the scales of the bridges
WorkflowSequences == ListsUpTo({"A"}, MaxSeq)
BridgeScales == {Scale("motif"), Scale("gene")}

\* analyzer = SimpleTestAnalyzer(); bridge = SimpleTestBridge()
InitWorkflow ==
    /\ confs = <<>>
    /\ provs = <<>>
    /\ feats = <<>>
    /\ lists = <<>>
    /\ dicts = <<>>
    /\ flists = <<>>
    /\ analyzers = <<SimpleTestAnalyzer("default"), SimpleTestBridge>>
    /\ last = Call("none", <<>>, NoError, NoValue)

\* features = analyzer.analyze(sequence), genes = bridge.bridge(a list of
\* features[0] and genes[0]), bridge.validate_input_scale(such a list), or
\* another bridge
NextWorkflow ==
    \/ \E sequence \in WorkflowSequences : Analyze(0, 1, sequence, Omitted)
    \/ \E fs \in ListsUpTo(DOMAIN feats, MaxLen) :
          /\ feats # <<>>
          /\ Bridge(1, 2, fs)
    \/ \E fs \in ListsUpTo(DOMAIN feats, MaxLen) : ValidateInputScale(2, fs)
    \/ \E i, o \in BridgeScales : NewBridge(2, i, o)

SpecWorkflow == InitWorkflow /\ [][NextWorkflow]_vars

\* C23 as stated: every result's provenance.dependencies names only upstream
\* producers, so that the name-level dependency relation has no cycle: the
\* dependencies of a feature never contain the name of the component that
\* produced the feature.
C23_NoSelfDependency ==
    \A f \in DOMAIN feats :
       provs[feats[f].provenance].analyzer
          \notin Range(provs[feats[f].provenance].dependencies)

\* C24 as stated: every concrete ScaleBridge has an output_scale strictly
\* higher than its input_scale: no bridge whose output_scale is equal to or
\* lower than its input_scale is created and bridges features.
C24_OutputAboveInput ==
    (Returned("bridge") /\ last.ret[1] # <<>>) =>
        ScaleGt(analyzers[last.args[1]].output_scale,
                analyzers[last.args[1]].input_scale)

----------------------------------------------------------------------------
(* A caller that combines two Confidences *)

\* the scores, source lists and evidence maps of the Confidences combined
CombineScores == {0, Frac(1, 4), Half, Frac(3, 4), Frac(7, 8), One}
CombineWeights == {Frac(-1, 4), 0, Frac(1, 4), Half, Frac(3, 4), One, Frac(5, 4)}
CombineSources == SourceLists \ {<<>>}

\* conf1 at address 1 and conf2 at address 2, as constructed: either the
\* scores vary around the containers of test_confidence_combination, or the
\* containers vary around fixed scores
InitCombine ==
    /\ \/ \E s1, s2 \in CombineScores :
             /\ confs = <<ConfidenceObj(s1, <<"method1">>, 1, 1),
                          ConfidenceObj(s2, <<"method2">>, 2, 2)>>
             /\ lists = << <<"s1">>, <<"s2">> >>
             /\ dicts = << << <<"s1", 1>> >>, << <<"s2", 2>> >> >>
       \/ \E l1, l2 \in CombineSources, e1, e2 \in EvidenceDicts :
             /\ confs = <<ConfidenceObj(Frac(3, 4), <<"method1">>, 1, 1),
                          ConfidenceObj(Half, <<"method2">>, 2, 2)>>
             /\ lists = <<l1, l2>>
             /\ dicts = <<e1, e2>>
    /\ provs = <<>>
    /\ feats = <<>>
    /\ flists = <<>>
    /\ analyzers = <<>>
    /\ last = Call("none", <<>>, NoError, NoValue)

\* combined = confN.combine_with(confM, w), rebinding `combined` each time
NextCombine ==
    \E a, b \in 1..2, w \in CombineWeights : CombineWith(2, a, b, w)

SpecCombine == InitCombine /\ [][NextCombine]_vars

\* the receiver, the other Confidence and the weight of the call that `last`
\* records, and the Confidence it returned
Receiver(l) == l.args[1]
Other(l) == l.args[2]
Weight(l) == l.args[3]

\* halving x is exact (no underflow)
HalvesExactly(x) == 2 * FMul(x, Half) = x

C5_InvalidWeight ==
    [][(last'.op = "combine_with" /\ (Weight(last') < 0 \/ Weight(last') > One)) =>
         /\ last'.error = WeightError
         /\ last'.ret = NoValue
         /\ confs' = confs
         /\ lists' = lists
         /\ dicts' = dicts]_vars

\* a negative weight was rejected
C5_Witness ==
    /\ Raised("combine_with")
    /\ Weight(last) < 0

\* C6: the result of a.combine_with(b, w) has as sources the set union of
\* a.sources and b.sources with each name once, and as supporting_evidence
\* the key-wise union of both evidence maps, b's value winning for a key
\* present in both.
C6_MergedContainers ==
    [][(last'.op = "combine_with" /\ last'.error = NoError) =>
         LET a == confs[Receiver(last')]
             b == confs[Other(last')]
             r == confs'[last'.ret[1]]
             rs == lists'[r.sources]
             re == dicts'[r.supporting_evidence]
             da == dicts[a.supporting_evidence]
             db == dicts[b.supporting_evidence]
         IN  /\ Range(rs) = Range(lists[a.sources]) \cup Range(lists[b.sources])
             /\ Len(rs) = Cardinality(Range(rs))
             /\ DictKeys(re) = DictKeys(da) \cup DictKeys(db)
             /\ Len(re) = Cardinality(DictKeys(re))
             /\ \A k \in DictKeys(re) :
                   DictValue(re, k) = IF k \in DictKeys(db) THEN DictValue(db, k)
                                      ELSE DictValue(da, k)]_vars

\* the inputs shared a source name and gave different values for one key
C6_Witness ==
    /\ Returned("combine_with")
    /\ Receiver(last) # Other(last)
    /\ lists[confs[Receiver(last)].sources] = <<"s1", "s1">>
    /\ lists[confs[Other(last)].sources] = <<"s1", "s2">>
    /\ dicts[confs[Receiver(last)].supporting_evidence] = << <<"s1", 1>> >>
    /\ dicts[confs[Other(last)].supporting_evidence] = << <<"s1", 2>>, <<"s2", 1>> >>
    /\ lists[confs[last.ret[1]].sources] = <<"s2", "s1">>

----------------------------------------------------------------------------
(* A caller that combines the results of combine_with again *)

\* how many combine_with calls a method text records
Depth(method) == Cardinality({i \in 1..Len(method) : method[i] = "combined("})

\* no operation of a*w + b*(1 - w) rounds: the products, the difference and
\* the sum are floats
RoundsNowhere(a, b, w) ==
    /\ IsFloat(One - w)
    /\ (a * w) % Unit = 0 /\ IsFloat((a * w) \div Unit)
    /\ (b * (One - w)) % Unit = 0 /\ IsFloat((b * (One - w)) \div Unit)
    /\ IsFloat((a * w + b * (One - w)) \div Unit)

\* the scores of the first two Confidences, the smallest positive float
\* among them, and the weights of the calls
ChainScores == {Frac(1, Unit), Frac(5, 8), Frac(7, 8)}
ChainWeights == {0, Frac(1, 8), Half, One}

InitChain ==
    /\ \E s1, s2 \in ChainScores :
          confs = <<ConfidenceObj(s1, <<"method1">>, 1, 1),
                    ConfidenceObj(s2, <<"method2">>, 2, 2)>>
    /\ lists = <<<<"s1">>, <<"s2">>>>
    /\ dicts = <<<<>>, <<>>>>
    /\ provs = <<>>
    /\ feats = <<>>
    /\ flists = <<>>
    /\ analyzers = <<>>
    /\ last = Call("none", <<>>, NoError, NoValue)

\* combined = x.combine_with(y, w) for x and y among conf1, conf2 and the
\* value of combined, as long as the result records at most MaxChain calls
NextChain ==
    \E a, b \in DOMAIN confs, w \in ChainWeights :
       /\ Depth(confs[a].method) + Depth(confs[b].method) + 1 <= MaxChain
       /\ CombineWith(2, a, b, w)

SpecChain == InitChain /\ [][NextChain]_vars

\* C25 as stated: every combine_with call with a weight in [0,1] succeeds
\* and its result is a valid Confidence whose score lies between the smaller
\* and the larger of the two input scores and whose sources are non-empty.
C25_BetweenInputs ==
    [][(last'.op = "combine_with" /\ WeightOk(Weight(last'))) =>
         /\ last'.error = NoError
         /\ LET a == confs[Receiver(last')].score
                b == confs[Other(last')].score
                r == confs'[last'.ret[1]]
            IN  /\ (IF a < b THEN a ELSE b) <= r.score
                /\ r.score <= (IF a < b THEN b ELSE a)
                /\ lists'[r.sources] # <<>>]_vars

\* C25: Confidences are closed under combination: every chain of
\* combine_with calls with weights in [0,1] succeeds, and each result is a
\* valid Confidence with a score in [0,1] and a non-empty sources list; the
\* score lies between the two input scores when the weight is 0 or 1 and
\* when no operation of a*w + b*(1-w) rounds.
C25_ClosedUnderCombination ==
    [][(last'.op = "combine_with" /\ WeightOk(Weight(last'))) =>
         /\ last'.error = NoError
         /\ LET a == confs[Receiver(last')].score
                b == confs[Other(last')].score
                w == Weight(last')
                r == confs'[last'.ret[1]]
            IN  /\ 0 <= r.score /\ r.score <= One
                /\ IsFloat(r.score)
                /\ lists'[r.sources] # <<>>
                /\ ConfidencePostInit(r.score, lists'[r.sources]) = NoError
                /\ (w \in {0, One} \/ RoundsNowhere(a, b, w)) =>
                      /\ (IF a < b THEN a ELSE b) <= r.score
                      /\ r.score <= (IF a < b THEN b ELSE a)]_vars

\* a result of combine_with was combined again, with a weight strictly
\* between 0 and 1, and the new score lies below both input scores
C25_Witness ==
    /\ Returned("combine_with")
    /\ Depth(confs[last.ret[1]].method) = 2
    /\ 0 < Weight(last) /\ Weight(last) < One
    /\ confs[last.ret[1]].score < confs[1].score
    /\ confs[last.ret[1]].score < confs[2].score
    /\ (Receiver(last) = 3 \/ Other(last) = 3)

----------------------------------------------------------------------------
(* A caller that combines Confidences, aggregates scores and edits results *)

\* the containers a Confidence refers to
SourcesOf(h, l, c) == l[h[c].sources]
EvidenceOf(h, d, c) == d[h[c].supporting_evidence]

\* conf1 and conf2 of test_confidence_combination, conf2 with one or two
\* sources, and the scores and weights of an aggregation
InitPure ==
    /\ \E l1, l2 \in {<<"s1">>, <<"s1", "s2">>} :
          /\ confs = <<ConfidenceObj(Frac(3, 4), <<"method1">>, 1, 1),
                       ConfidenceObj(Half, <<"method2">>, 2, 2)>>
          /\ lists = <<l1, l2>>
          /\ dicts = << << <<"s1", 1>> >>, << <<"s2", 2>> >> >>
    /\ provs = <<>>
    /\ feats = <<>>
    /\ flists = << <<Frac(3, 4), Frac(1, 4)>>, <<One, Half>> >>
    /\ analyzers = <<>>
    /\ last = Call("none", <<>>, NoError, NoValue)

\* combined = confN.combine_with(confM, w), an aggregation, or a change to a
\* container of the combined result
NextPure ==
    \/ \E a, b \in 1..2, w \in {Frac(-1, 4), Half, One} : CombineWith(2, a, b, w)
    \/ \E m \in Methods, w \in {0, 2} : AggregateConfidence(1, m, w)
    \/ \E c \in DOMAIN confs \ {1, 2}, s \in SourceNames : AppendSource(c, s)
    \/ \E c \in DOMAIN confs \ {1, 2}, v \in 1..2 : SetEvidence(c, "s1", v)

SpecPure == InitPure /\ [][NextPure]_vars

\* C7: combine_with and aggregate_confidence are pure: after any call,
\* successful or failing, the receiver, the other Confidence and the lists
\* of scores and weights hold the values they held before, and the
\* Confidence combine_with returns shares no sources list and no evidence
\* map with an input, so that changing the result's containers never changes
\* an input.
C7_Pure ==
    [][/\ last'.op \in {"combine_with", "aggregate_confidence"} =>
             /\ flists' = flists
             /\ \A c \in DOMAIN confs :
                   (last'.op = "aggregate_confidence" \/ c \in {Receiver(last'), Other(last')}) =>
                      /\ c \in DOMAIN confs'
                      /\ confs'[c] = confs[c]
                      /\ SourcesOf(confs', lists', c) = SourcesOf(confs, lists, c)
                      /\ EvidenceOf(confs', dicts', c) = EvidenceOf(confs, dicts, c)
       /\ (last'.op = "combine_with" /\ last'.error = NoError) =>
             LET r == confs'[last'.ret[1]]
             IN  \A c \in {Receiver(last'), Other(last')} :
                    /\ r.sources # confs'[c].sources
                    /\ r.supporting_evidence # confs'[c].supporting_evidence
       /\ last'.op \in {"append", "setitem"} =>
             \A c \in {1, 2} :
                /\ SourcesOf(confs', lists', c) = SourcesOf(confs, lists, c)
                /\ EvidenceOf(confs', dicts', c) = EvidenceOf(confs, dicts, c)]_vars

\* a name was appended to the sources of a combined result, which then
\* differ from the sources of both inputs
C7_Witness ==
    /\ last.op = "append"
    /\ Len(confs) = 3
    /\ Len(lists[confs[3].sources]) > Len(lists[confs[1].sources])
    /\ Len(lists[confs[3].sources]) > Len(lists[confs[2].sources])

====
